---- MODULE Spec2Model ----
(***************************************************************************)
(* Verification model of the Apache Juneau developer scripts.              *)
(*                                                                         *)
(*   SpecRelease  scripts/release.py: ReleaseState, ReleaseScript.run and  *)
(*                the thirteen release steps                               *)
(*   SpecState    scripts/release.py: two processes sharing the state file *)
(*   SpecBuildTest scripts/build-and-test.py: main                         *)
(*   SpecBuildPush scripts/build-and-push.py: main                         *)
(*   SpecDocsStage scripts/release-docs-stage.py: main                     *)
(*   SpecReleaseDocs scripts/release-docs.py: main                         *)
(*   SpecCleanup  scripts/cleanup-whitespace.py: clean_java_file           *)
(*                                                                         *)
(* scripts/release.py as shipped has a stray indentation at line 1067      *)
(* (_generate_vote_email); the model follows the statements of the methods *)
(* as they are written.                                                    *)
(***************************************************************************)
EXTENDS Integers, Sequences, FiniteSets, TLC

VARIABLES
    \* ---- scripts/release.py, one invocation -------------------------------
    arg_start_step,   \* args.start_step as given on the command line
    start_step,       \* self.start_step (run() may overwrite it)
    skip_steps,       \* self.skip_steps
    resume,           \* self.resume
    data,             \* self.state.data
    file,             \* the state file ~/.juneau-release-state.json
    save_ok,          \* whether the most recent ReleaseState.save() wrote the file
    save_fails,       \* number of failed saves so far
    disk_faults,      \* writes of the state file that can fail in this run
    env_repo,         \* os.environ has X_REPO
    pc,               \* "new", "begin", "loop", "step", "ret", "exit"
    step_idx,         \* position of the for loop of run() in self.steps
    op_idx,           \* position inside the running step method
    executed,         \* step methods called so far, in call order
    completed,        \* step methods that returned normally, in order
    loaded_last,      \* last_step found in the state file at construction
    ckpt_at_start,    \* last_step of the state file when the running step began
    cmd_failed,       \* step whose checked command returned non-zero
    procs,            \* external processes that are still running
    out,              \* kinds of messages printed
    logged_last,      \* name printed after "Last completed step:"
    status,           \* exit status of the process
    \* ---- scripts/release.py, the state file shared by two processes -------
    pdata,            \* ReleaseState.data of each process
    pfile,            \* the shared state file
    plast,            \* the most recent ReleaseState call
    pfails,           \* number of failed saves so far
    pcalls,           \* number of ReleaseState calls so far
    \* ---- scripts/build-and-test.py ----------------------------------------
    bt_args,          \* sys.argv[1:]
    bt_cwd_ok,        \* the hard-coded working directory exists
    bt_pc,            \* "parse", "build", "test", "exit"
    bt_i,             \* position of the argument loop
    build_only, test_only, full, verbose,
    exit_code,        \* main()'s exit_code
    bt_ran,           \* commands run so far: <<command, return code>>
    bt_out,           \* kinds of messages printed
    bt_status,        \* exit status of the process
    \* ---- scripts/build-and-push.py ----------------------------------------
    bp_args,          \* the command line: message given, the three flags
    bp_pc,            \* position in main()
    bp_ran,           \* external commands run so far: <<command, outcome>>
    bp_changed,       \* a file was written or a command was run
    bp_out,           \* kinds of messages printed, sounds played
    bp_status,        \* exit status of the process
    \* ---- scripts/release-docs-stage.py ------------------------------------
    ds_no_push,       \* args.no_push
    ds_pc,            \* position in main()
    ds_ran,           \* external commands run so far: <<command, outcome>>
    ds_out,           \* kinds of messages printed, sounds played
    ds_status,        \* exit status of the process
    \* ---- scripts/release-docs.py ------------------------------------------
    rd_no_push,       \* args.no_push
    rd_pc,            \* position in main()
    rd_ran,           \* external commands run so far: <<command, outcome>>
    rd_temp_dir,      \* the temporary clone: "none", "exists", "deleted"
    rd_out,           \* kinds of messages printed, sounds played
    rd_status,        \* exit status of the process
    \* ---- scripts/cleanup-whitespace.py: clean_java_file -------------------
    cw_file,          \* the characters of the file on disk
    cw_pc,            \* position in clean_java_file
    content,          \* what was read from the file
    lines,            \* lines, then cleaned_lines
    new_content,      \* the content produced
    cw_ret            \* the value returned

relVars == << arg_start_step, start_step, skip_steps, resume, data, file, save_ok,
              save_fails, disk_faults, env_repo, pc, step_idx, op_idx, executed, completed,
              loaded_last, ckpt_at_start, cmd_failed, procs, out, logged_last, status >>
stVars == << pdata, pfile, plast, pfails, pcalls >>
btVars == << bt_args, bt_cwd_ok, bt_pc, bt_i, build_only, test_only, full, verbose,
             exit_code, bt_ran, bt_out, bt_status >>
bpVars == << bp_args, bp_pc, bp_ran, bp_changed, bp_out, bp_status >>
dsVars == << ds_no_push, ds_pc, ds_ran, ds_out, ds_status >>
rdVars == << rd_no_push, rd_pc, rd_ran, rd_temp_dir, rd_out, rd_status >>
cwVars == << cw_file, cw_pc, content, lines, new_content, cw_ret >>
vars == << relVars, stVars, btVars, bpVars, dsVars, rdVars, cwVars >>

\* the variables of the scripts other than the one that is running
notRelease == << stVars, btVars, bpVars, dsVars, rdVars, cwVars >>
notState == << relVars, btVars, bpVars, dsVars, rdVars, cwVars >>
notBuildTest == << relVars, stVars, bpVars, dsVars, rdVars, cwVars >>
notBuildPush == << relVars, stVars, btVars, dsVars, rdVars, cwVars >>
notDocsStage == << relVars, stVars, btVars, bpVars, rdVars, cwVars >>
notCleanup == << relVars, stVars, btVars, bpVars, dsVars, rdVars >>
notReleaseDocs == << relVars, stVars, btVars, bpVars, dsVars, cwVars >>

(***************************************************************************)
(* Bounds of the model.                                                    *)
(***************************************************************************)
MaxSkip == 1           \* --skip-step is given at most this many times
MaxSaveFailures == 1   \* writes of the state file that fail in one run
MaxRetCode == 2        \* external commands return 0..MaxRetCode
MaxArgs == 2           \* build-and-test.py gets at most this many arguments
MaxStateOps == 3       \* ReleaseState calls of the two sharing processes
MaxLen == 5            \* a Java file has at most this many characters

RetCodes == 0..MaxRetCode

(***************************************************************************)
(* Python values.                                                          *)
(***************************************************************************)
None == "<None>"
Truthy(v) == v /= None /\ v /= ""

(***************************************************************************)
(* ReleaseState (release.py 67-113).                                       *)
(***************************************************************************)
Keys == {"last_step", "X_RELEASE", "X_REPO"}
EmptyMap == [k \in Keys |-> None]
NoFile == [kind |-> "none", data |-> EmptyMap]
BadFile == [kind |-> "bad", data |-> EmptyMap]
JsonFile(d) == [kind |-> "json", data |-> d]

\* ReleaseState._load: the file's map, {} when it is missing or unreadable
_load(f) == IF f.kind = "json" THEN f.data ELSE EmptyMap

\* outcomes of open(..., 'w') + json.dump: written, open failed (file kept),
\* write failed after the truncating open (file left unreadable)
SaveOutcomes(fails, faults) ==
    {"ok"} \cup (IF fails < faults THEN {"openfail", "writefail"} ELSE {})

\* faulty variant: save that keeps the keys already in the file
save_merging(d, f, o) ==
    CASE o = "ok" -> JsonFile([k \in Keys |-> IF d[k] /= None THEN d[k] ELSE f.data[k]])
      [] o = "openfail" -> f
      [] OTHER -> BadFile

\* ReleaseState.save: the whole map replaces the file; an exception is only warned about
save(d, f, o) ==
    CASE o = "ok" -> JsonFile(d)
      [] o = "openfail" -> f
      [] OTHER -> BadFile

\* ReleaseState.get
get(d, k) == d[k]

\* ReleaseState.set, the assignment; the save follows in the calling action
set(d, k, v) == [d EXCEPT ![k] = v]

\* ReleaseState.get_last_step
get_last_step(d) == d["last_step"]

\* faulty variant: a step that does not record itself
set_last_step_forgotten(d, step) == d

\* ReleaseState.set_last_step as the steps call it: each with its own name
set_last_step(d, step) == set(d, "last_step", step)

(***************************************************************************)
(* ReleaseScript (release.py 115-1323).                                    *)
(***************************************************************************)
steps == << "check_prerequisites", "check_java_version", "check_maven_version",
            "clean_maven_repo", "make_git_folder", "clone_juneau", "configure_git",
            "run_clean_verify", "run_deploy", "run_release_prepare",
            "run_release_perform", "create_binary_artifacts", "verify_distribution" >>
StepSet == {steps[i] : i \in 1..Len(steps)}

\* list.index for a member of the list
index(seq, x) == CHOOSE i \in 1..Len(seq) : seq[i] = x

(* The step methods, as the sequence of their effects:                      *)
(*   "cmd"         run_command(..., check=True)                              *)
(*   "cmd_nocheck" run_command(..., check=False) or subprocess.run, result   *)
(*                 not leading to fail() by itself                           *)
(*   "cmd_fs"      checked or unchecked depending on a directory's existence *)
(*   "verify"      a condition on what was found; fail() when it is false    *)
(*   "need_repo"   fail() unless X_REPO is in the state or the environment   *)
(*   "fs"          shutil / pathlib calls, which may raise                   *)
(*   "if_clean_m2" the guard of clean_maven_repo's block (two effects)       *)
(*   "popen"       subprocess.Popen, not waited for                          *)
(*   "set_repo"    self.state.set('X_REPO', ...)                             *)
(*   "set_last"    self.state.set_last_step(<own name>)                      *)
check_prerequisites == << "cmd_nocheck", "verify", "cmd_nocheck", "set_last" >>
check_java_version == << "cmd_nocheck", "verify", "set_last" >>
check_maven_version == << "cmd_nocheck", "cmd_nocheck", "verify", "set_last" >>
clean_maven_repo == << "if_clean_m2", "fs", "popen", "set_last" >>
make_git_folder == << "fs", "set_last" >>
clone_juneau == << "cmd", "set_last" >>
configure_git == << "cmd", "cmd", "set_last" >>
run_clean_verify == << "cmd", "set_last" >>
run_deploy == << "cmd", "set_last" >>
run_release_prepare == << "verify", "cmd", "set_last" >>
run_release_perform == << "cmd", "popen", "verify", "set_repo", "set_last" >>
create_binary_artifacts ==
    << "need_repo", "fs", "cmd", "cmd_nocheck", "fs", "cmd", "fs", "cmd", "fs",
       "cmd", "cmd", "cmd", "set_last" >>
verify_distribution == << "cmd_fs", "verify", "popen", "cmd_nocheck", "set_last" >>

\* getattr(self, step_name)
getattr(step_name) ==
    CASE step_name = "check_prerequisites" -> check_prerequisites
      [] step_name = "check_java_version" -> check_java_version
      [] step_name = "check_maven_version" -> check_maven_version
      [] step_name = "clean_maven_repo" -> clean_maven_repo
      [] step_name = "make_git_folder" -> make_git_folder
      [] step_name = "clone_juneau" -> clone_juneau
      [] step_name = "configure_git" -> configure_git
      [] step_name = "run_clean_verify" -> run_clean_verify
      [] step_name = "run_deploy" -> run_deploy
      [] step_name = "run_release_prepare" -> run_release_prepare
      [] step_name = "run_release_perform" -> run_release_perform
      [] step_name = "create_binary_artifacts" -> create_binary_artifacts
      [] OTHER -> verify_distribution

\* faulty variant: should_run_step without the --skip-step test
should_run_step_ignoring_skip(step_name, skip, res, d, start) ==
    IF res /\ Truthy(get_last_step(d)) /\ get_last_step(d) \in StepSet
    THEN IF index(steps, step_name) > index(steps, get_last_step(d)) THEN "run" ELSE "skip"
    ELSE IF Truthy(start)
         THEN IF start \in StepSet
              THEN IF index(steps, step_name) >= index(steps, start) THEN "run" ELSE "skip"
              ELSE "fail"
         ELSE "run"

\* faulty variant: resume runs the checkpointed step again
should_run_step_resume_inclusive(step_name, skip, res, d, start) ==
    IF step_name \in skip THEN "skip"
    ELSE IF res /\ Truthy(get_last_step(d)) /\ get_last_step(d) \in StepSet
         THEN IF index(steps, step_name) >= index(steps, get_last_step(d)) THEN "run" ELSE "skip"
         ELSE should_run_step_ignoring_skip(step_name, skip, res, d, start)

\* ReleaseScript.should_run_step: "run" (True), "skip" (False) or "fail"
\* (self.fail on an unknown start step)
should_run_step(step_name, skip, res, d, start) ==
    IF step_name \in skip THEN "skip"
    ELSE IF res /\ Truthy(get_last_step(d)) /\ get_last_step(d) \in StepSet
         THEN IF index(steps, step_name) > index(steps, get_last_step(d)) THEN "run" ELSE "skip"
         ELSE IF Truthy(start)
              THEN IF start \in StepSet
                   THEN IF index(steps, step_name) >= index(steps, start) THEN "run" ELSE "skip"
                   ELSE "fail"
              ELSE "run"

\* subprocess.Popen: the process is started
Popen(ps, p) == ps \cup {p}
\* Popen.wait / subprocess.run's communicate(): the process has ended
wait(ps, p) == ps \ {p}

\* faulty variant: a command that is started and not waited for
subprocess_run_nowait(ps, p) == Popen(ps, p)

\* subprocess.run: start the process and wait for it
subprocess_run(ps, p) == wait(Popen(ps, p), p)

\* faulty variant: run_command that ignores the return code
run_command_unchecked(check, rc) == FALSE

\* ReleaseScript.run_command: whether it ends in self.fail
run_command(check, rc) == check /\ rc /= 0

\* faulty variant: a loop that does not move on
next_step_same(i) == i

\* the for loop of run(): the next element of self.steps
next_step(i) == i + 1

cur_step == steps[step_idx]
cur_ops == getattr(cur_step)
cur_op == cur_ops[op_idx]
InStep(kind) == pc = "step" /\ cur_op = kind
Proc(how) == [step |-> cur_step, how |-> how]

\* the statement after the current one; the method returns after its last one
Advance(n) ==
    /\ pc' = "step"
    /\ op_idx' = op_idx + n
    /\ UNCHANGED << step_idx, status, out, logged_last, cmd_failed >>

\* sys.exit(code): the process ends; no statement of a step is current any more
sys_exit(code) ==
    /\ status' = code
    /\ pc' = "exit"
    /\ op_idx' = 1
    /\ UNCHANGED step_idx

\* ReleaseScript.fail: message, banner, sys.exit(1)
fail ==
    /\ out' = out \cup {"FAILED"}
    /\ sys_exit(1)
    /\ UNCHANGED logged_last

\* except Exception in run(): message, resume hint, re-raise (traceback, status 1)
raise ==
    /\ out' = out \cup {"Error in step"}
    /\ sys_exit(1)
    /\ UNCHANGED << logged_last, cmd_failed >>

FileLast(f) == f.data["last_step"]

\* self.state.set(k, v) in the running process: assignment, then save
StateSet(d, o) ==
    /\ data' = d
    /\ file' = save(d, file, o)
    /\ save_ok' = (o = "ok")
    /\ save_fails' = IF o = "ok" THEN save_fails ELSE save_fails + 1

StateSame == UNCHANGED << data, file, save_ok, save_fails >>
ArgsSame ==
    UNCHANGED << arg_start_step, skip_steps, resume, disk_faults, loaded_last, notRelease >>
HistSame == UNCHANGED << executed, completed, ckpt_at_start >>

(***************************************************************************)
(* The invocation: main() 1552-1559.                                       *)
(***************************************************************************)
\* --skip-step names no step, or up to MaxSkip consecutive steps
SkipChoices ==
    UNION {{{steps[j] : j \in i..(i + n - 1)} : i \in 1..(Len(steps) - n + 1)} :
           n \in 0..MaxSkip}
\* --start-step: not given, empty, unknown, or any step
StartChoices == {None, "", "no_such_step"} \cup StepSet
\* a checkpoint left by an earlier run: X_RELEASE always, X_REPO once
\* run_release_perform has stored it
Checkpoint(last) ==
    JsonFile([k \in Keys |->
        CASE k = "last_step" -> last
          [] k = "X_RELEASE" -> "juneau-RC"
          [] OTHER -> IF index(steps, last) >= index(steps, "run_release_perform")
                      THEN "orgapachejuneau" ELSE None])
FileChoices == {NoFile, BadFile} \cup {Checkpoint(s) : s \in StepSet}
\* the runs: --resume over every state file, with some --start-step values
\* beside it; runs without --resume from every --start-step; and plain and
\* resumed runs on a disk where writes of the state file can fail
Invocations ==
    ({TRUE} \X {None, "", "no_such_step", "run_deploy", "verify_distribution"}
            \X FileChoices \X SkipChoices \X {0})
    \cup ({FALSE} \X StartChoices
            \X {NoFile, Checkpoint("run_deploy"), Checkpoint("run_release_perform")}
            \X SkipChoices \X {0})
    \cup (BOOLEAN \X {None} \X {NoFile, Checkpoint("run_deploy")} \X {{}} \X {MaxSaveFailures})

InitRelease ==
    /\ \E inv \in Invocations :
          /\ resume = inv[1]
          /\ arg_start_step = inv[2]
          /\ start_step = inv[2]
          /\ file = inv[3]
          /\ skip_steps = inv[4]
          /\ disk_faults = inv[5]
    /\ data = EmptyMap
    /\ save_ok = TRUE
    /\ save_fails = 0
    /\ env_repo = FALSE
    /\ pc = "new"
    /\ step_idx = 1
    /\ op_idx = 1
    /\ executed = << >>
    /\ completed = << >>
    /\ loaded_last = None
    /\ ckpt_at_start = None
    /\ cmd_failed = None
    /\ procs = {}
    /\ out = {}
    /\ logged_last = None
    /\ status = 0

\* ReleaseScript.__init__: ReleaseState() loads the file, _load_env stores
\* X_RELEASE; _load_env fails when pom.xml or the version cannot be read
Construct ==
    /\ pc = "new"
    /\ loaded_last' = get_last_step(_load(file))
    /\ \/ /\ \E o \in SaveOutcomes(save_fails, disk_faults) :
                StateSet(set(_load(file), "X_RELEASE", "juneau-RC"), o)
          /\ pc' = "begin"
          /\ UNCHANGED << status, out, step_idx, op_idx, logged_last >>
       \/ /\ data' = _load(file)
          /\ UNCHANGED << file, save_ok, save_fails >>
          /\ fail
    /\ UNCHANGED << arg_start_step, start_step, skip_steps, resume, disk_faults, env_repo,
                    executed, completed, ckpt_at_start, cmd_failed, procs, notRelease >>

\* run() 1277-1303: the passphrase prompt, then the resume preamble
RunBegin ==
    /\ pc = "begin"
    /\ procs' = subprocess_run(procs, [step |-> "run", how |-> "run"])
    /\ start_step' =
          IF /\ resume
             /\ Truthy(get_last_step(data))
             /\ get_last_step(data) \in StepSet
             /\ index(steps, get_last_step(data)) < Len(steps)
          THEN steps[index(steps, get_last_step(data)) + 1]
          ELSE start_step
    /\ pc' = "loop"
    /\ StateSame /\ ArgsSame /\ HistSame
    /\ UNCHANGED << env_repo, step_idx, op_idx, cmd_failed, out, logged_last, status >>

ShouldRun == should_run_step(cur_step, skip_steps, resume, data, start_step)

\* run() 1306-1308: the step is skipped
SkipStep ==
    /\ pc = "loop" /\ step_idx <= Len(steps)
    /\ ShouldRun = "skip"
    /\ out' = out \cup {"Skipping"}
    /\ step_idx' = next_step(step_idx)
    /\ StateSame /\ ArgsSame /\ HistSame
    /\ UNCHANGED << start_step, env_repo, pc, op_idx, cmd_failed, procs, logged_last, status >>

\* run() 1310-1312: the step method is called
StartStep ==
    /\ pc = "loop" /\ step_idx <= Len(steps)
    /\ ShouldRun = "run"
    /\ executed' = Append(executed, cur_step)
    /\ ckpt_at_start' = FileLast(file)
    /\ pc' = "step"
    /\ op_idx' = 1
    /\ StateSame /\ ArgsSame
    /\ UNCHANGED << start_step, env_repo, step_idx, completed, cmd_failed, procs, out,
                    logged_last, status >>

\* should_run_step 439-440: unknown start step
UnknownStartStep ==
    /\ pc = "loop" /\ step_idx <= Len(steps)
    /\ ShouldRun = "fail"
    /\ fail
    /\ StateSame /\ ArgsSame /\ HistSame
    /\ UNCHANGED << start_step, env_repo, cmd_failed, procs >>

\* run_command / subprocess.run inside a step
DoCommand ==
    /\ pc = "step" /\ cur_op \in {"cmd", "cmd_nocheck", "cmd_fs"}
    /\ procs' = subprocess_run(procs, Proc("run"))
    /\ \E rc \in RetCodes, check \in BOOLEAN :
          /\ cur_op = "cmd" => check
          /\ cur_op = "cmd_nocheck" => ~check
          /\ cmd_failed' = IF check /\ rc /= 0 THEN cur_step ELSE cmd_failed
          /\ IF run_command(check, rc)
             THEN fail
             ELSE /\ pc' = "step"
                  /\ op_idx' = op_idx + 1
                  /\ UNCHANGED << step_idx, status, out, logged_last >>
    /\ StateSame /\ ArgsSame /\ HistSame
    /\ UNCHANGED << start_step, env_repo >>

\* a check of what the step found: self.fail(...) when it does not hold
DoVerify ==
    /\ InStep("verify")
    /\ \/ Advance(1)
       \/ fail /\ UNCHANGED cmd_failed
    /\ StateSame /\ ArgsSame /\ HistSame
    /\ UNCHANGED << start_step, env_repo, procs >>

\* create_binary_artifacts 836-839
DoNeedRepo ==
    /\ InStep("need_repo")
    /\ IF Truthy(get(data, "X_REPO")) \/ env_repo
       THEN Advance(1)
       ELSE fail /\ UNCHANGED cmd_failed
    /\ StateSame /\ ArgsSame /\ HistSame
    /\ UNCHANGED << start_step, env_repo, procs >>

\* shutil.rmtree, Path.rename, Path.mkdir: done, or an OSError
DoFs ==
    /\ InStep("fs")
    /\ \/ Advance(1)
       \/ raise
    /\ StateSame /\ ArgsSame /\ HistSame
    /\ UNCHANGED << start_step, env_repo, procs >>

\* clean_maven_repo 588-591: the block runs only when X_CLEANM2 is not 'N'
\* and ~/.m2/repository exists
DoIfCleanM2 ==
    /\ InStep("if_clean_m2")
    /\ \/ Advance(1)
       \/ Advance(3)
    /\ StateSame /\ ArgsSame /\ HistSame
    /\ UNCHANGED << start_step, env_repo, procs >>

\* subprocess.Popen([...]) without wait: started, or the program is missing
DoPopen ==
    /\ InStep("popen")
    /\ \/ procs' = Popen(procs, Proc("Popen")) /\ Advance(1)
       \/ raise /\ UNCHANGED procs
    /\ StateSame /\ ArgsSame /\ HistSame
    /\ UNCHANGED << start_step, env_repo >>

\* run_release_perform 822-823
DoSetRepo ==
    /\ InStep("set_repo")
    /\ env_repo' = TRUE
    /\ \E o \in SaveOutcomes(save_fails, disk_faults) : StateSet(set(data, "X_REPO", "orgapachejuneau"), o)
    /\ Advance(1)
    /\ ArgsSame /\ HistSame
    /\ UNCHANGED << start_step, procs >>

\* self.state.set_last_step('<step>'), the last statement of every step
DoSetLastStep ==
    /\ InStep("set_last")
    /\ \E o \in SaveOutcomes(save_fails, disk_faults) : StateSet(set_last_step(data, cur_step), o)
    /\ pc' = "ret"
    /\ ArgsSame /\ HistSame
    /\ UNCHANGED << start_step, env_repo, step_idx, op_idx, cmd_failed, procs, out,
                    logged_last, status >>

\* step_method() returns to the loop of run()
StepReturn ==
    /\ pc = "ret"
    /\ completed' = Append(completed, cur_step)
    /\ step_idx' = next_step(step_idx)
    /\ pc' = "loop"
    /\ StateSame /\ ArgsSame
    /\ UNCHANGED << start_step, env_repo, op_idx, executed, ckpt_at_start, cmd_failed,
                    procs, out, logged_last, status >>

\* run() 1313-1317: KeyboardInterrupt while step_method() runs
Interrupt ==
    /\ pc \in {"step", "ret"}
    /\ out' = out \cup {"Interrupted"}
    /\ logged_last' = cur_step
    /\ sys_exit(1)
    /\ StateSame /\ ArgsSame /\ HistSame
    /\ UNCHANGED << start_step, env_repo, cmd_failed, procs >>

\* run() 1323 and success(): banner, state.clear(), sys.exit(0)
success ==
    /\ pc = "loop" /\ step_idx > Len(steps)
    /\ out' = out \cup {"SUCCESS"}
    /\ data' = EmptyMap
    /\ file' = NoFile
    /\ sys_exit(0)
    /\ ArgsSame /\ HistSame
    /\ UNCHANGED << start_step, save_ok, save_fails, env_repo, cmd_failed, procs,
                    logged_last >>

\* a process started with Popen ends by itself
ProcExit ==
    /\ \E p \in procs : procs' = procs \ {p}
    /\ StateSame /\ ArgsSame /\ HistSame
    /\ UNCHANGED << start_step, env_repo, pc, step_idx, op_idx, cmd_failed, out,
                    logged_last, status >>

NextRelease ==
    \/ Construct
    \/ RunBegin
    \/ SkipStep
    \/ StartStep
    \/ UnknownStartStep
    \/ DoCommand
    \/ DoVerify
    \/ DoNeedRepo
    \/ DoFs
    \/ DoIfCleanM2
    \/ DoPopen
    \/ DoSetRepo
    \/ DoSetLastStep
    \/ StepReturn
    \/ Interrupt
    \/ success
    \/ ProcExit

(***************************************************************************)
(* Two processes, each with its own ReleaseState, over one state file.     *)
(***************************************************************************)
Procs == {"first", "second"}
Values == {"a", "b"}
NoCall == [op |-> "none", proc |-> None, key |-> None, val |-> None, wrote |-> FALSE]

InitState ==
    /\ pdata = [p \in Procs |-> EmptyMap]
    /\ pfile = NoFile
    /\ plast = NoCall
    /\ pfails = 0
    /\ pcalls = 0

\* ReleaseState.__init__ in a process: self.data = self._load()
StateNew(p) ==
    /\ pcalls < MaxStateOps
    /\ pdata' = [pdata EXCEPT ![p] = _load(pfile)]
    /\ plast' = [NoCall EXCEPT !.op = "new", !.proc = p]
    /\ pcalls' = pcalls + 1
    /\ UNCHANGED << pfile, pfails, notState >>

\* ReleaseState.set(key, value) in a process
StateSetCall(p, k, v) ==
    /\ pcalls < MaxStateOps
    /\ \E o \in SaveOutcomes(pfails, MaxSaveFailures) :
          /\ pdata' = [pdata EXCEPT ![p] = set(pdata[p], k, v)]
          /\ pfile' = save(set(pdata[p], k, v), pfile, o)
          /\ pfails' = IF o = "ok" THEN pfails ELSE pfails + 1
          /\ plast' = [op |-> "set", proc |-> p, key |-> k, val |-> v, wrote |-> (o = "ok")]
    /\ pcalls' = pcalls + 1
    /\ UNCHANGED << notState >>

\* ReleaseState.clear() in a process
StateClear(p) ==
    /\ pcalls < MaxStateOps
    /\ pdata' = [pdata EXCEPT ![p] = EmptyMap]
    /\ pfile' = NoFile
    /\ plast' = [NoCall EXCEPT !.op = "clear", !.proc = p]
    /\ pcalls' = pcalls + 1
    /\ UNCHANGED << pfails, notState >>

NextState ==
    \/ \E p \in Procs : StateNew(p)
    \/ \E p \in Procs, k \in Keys, v \in Values : StateSetCall(p, k, v)
    \/ \E p \in Procs : StateClear(p)

(***************************************************************************)
(* scripts/build-and-test.py                                               *)
(***************************************************************************)
Options == {"--help", "-h", "--build-only", "-b", "--test-only", "-t",
            "--full", "-f", "--verbose", "-v", "--no-such-option"}
ArgLists == UNION {[1..n -> Options] : n \in 0..MaxArgs}

InitBuildTest ==
    /\ bt_args \in ArgLists
    /\ bt_cwd_ok \in BOOLEAN
    /\ bt_pc = "parse"
    /\ bt_i = 1
    /\ build_only = FALSE
    /\ test_only = FALSE
    /\ full = TRUE
    /\ verbose = FALSE
    /\ exit_code = 0
    /\ bt_ran = << >>
    /\ bt_out = {}
    /\ bt_status = 0

BtFlags == << build_only, test_only, full, verbose >>
BtInput == << bt_args, bt_cwd_ok >>

\* faulty variant: every failure reported as status 1
bt_exit_one(code) == IF code = 0 THEN 0 ELSE 1

\* sys.exit(main()): the value main() returns is the exit status
bt_exit(code) == code

BtReturn(code) ==
    /\ bt_status' = bt_exit(code)
    /\ bt_pc' = "exit"

\* main 94-111: one iteration of the loop over the arguments
BtParseArg ==
    /\ bt_pc = "parse" /\ bt_i <= Len(bt_args)
    /\ LET arg == bt_args[bt_i] IN
       CASE arg \in {"--help", "-h"} ->
              /\ bt_out' = bt_out \cup {"doc"}
              /\ BtReturn(0)
              /\ UNCHANGED << BtFlags, bt_i >>
         [] arg \in {"--build-only", "-b"} ->
              /\ build_only' = TRUE /\ full' = FALSE
              /\ bt_i' = bt_i + 1
              /\ UNCHANGED << test_only, verbose, bt_out, bt_pc, bt_status >>
         [] arg \in {"--test-only", "-t"} ->
              /\ test_only' = TRUE /\ full' = FALSE
              /\ bt_i' = bt_i + 1
              /\ UNCHANGED << build_only, verbose, bt_out, bt_pc, bt_status >>
         [] arg \in {"--full", "-f"} ->
              /\ full' = TRUE
              /\ bt_i' = bt_i + 1
              /\ UNCHANGED << build_only, test_only, verbose, bt_out, bt_pc, bt_status >>
         [] arg \in {"--verbose", "-v"} ->
              /\ verbose' = TRUE
              /\ bt_i' = bt_i + 1
              /\ UNCHANGED << build_only, test_only, full, bt_out, bt_pc, bt_status >>
         [] OTHER ->
              /\ bt_out' = bt_out \cup {"Unknown option", "doc"}
              /\ BtReturn(1)
              /\ UNCHANGED << BtFlags, bt_i >>
    /\ UNCHANGED << BtInput, exit_code, bt_ran, notBuildTest >>

\* main 113-114: the loop is over
BtParsed ==
    /\ bt_pc = "parse" /\ bt_i > Len(bt_args)
    /\ exit_code' = 0
    /\ bt_pc' = "build"
    /\ UNCHANGED << BtInput, BtFlags, bt_i, bt_ran, bt_out, bt_status, notBuildTest >>

\* run_command 32-60: subprocess.run(cmd, shell=True, cwd=<fixed path>); it
\* raises when the directory does not exist, else returns the return code
BtRun(cmd, failed, passed, next) ==
    IF ~bt_cwd_ok
    THEN /\ bt_out' = bt_out \cup {"Traceback"}
         /\ bt_status' = 1
         /\ bt_pc' = "exit"
         /\ UNCHANGED << exit_code, bt_ran >>
    ELSE \E rc \in RetCodes :
         /\ exit_code' = rc
         /\ bt_ran' = Append(bt_ran, << cmd, rc >>)
         /\ IF rc /= 0
            THEN bt_out' = bt_out \cup {failed} /\ BtReturn(rc)
            ELSE bt_out' = bt_out \cup {passed} /\ bt_pc' = next /\ UNCHANGED bt_status

\* main 116: if build_only or full
should_build(b, f) == b \/ f

\* faulty variant: the tests are run whatever the flags are
should_test_always(t, f) == TRUE

\* main 123: if test_only or full
should_test(t, f) == t \/ f

\* main 116-121
BtBuild ==
    /\ bt_pc = "build"
    /\ should_build(build_only, full)
    /\ BtRun("mvn clean install", "Build failed", "Build succeeded", "test")
    /\ UNCHANGED << BtInput, BtFlags, bt_i, notBuildTest >>

BtNoBuild ==
    /\ bt_pc = "build"
    /\ ~should_build(build_only, full)
    /\ bt_pc' = "test"
    /\ UNCHANGED << BtInput, BtFlags, bt_i, exit_code, bt_ran, bt_out, bt_status,
                    notBuildTest >>

\* main 123-136
BtTest ==
    /\ bt_pc = "test"
    /\ should_test(test_only, full)
    /\ BtRun("mvn test", "Tests failed", "Tests passed", "done")
    /\ UNCHANGED << BtInput, BtFlags, bt_i, notBuildTest >>

BtNoTest ==
    /\ bt_pc = "test"
    /\ ~should_test(test_only, full)
    /\ bt_pc' = "done"
    /\ UNCHANGED << BtInput, BtFlags, bt_i, exit_code, bt_ran, bt_out, bt_status,
                    notBuildTest >>

\* main 138: return exit_code
BtDone ==
    /\ bt_pc = "done"
    /\ BtReturn(exit_code)
    /\ UNCHANGED << BtInput, BtFlags, bt_i, exit_code, bt_ran, bt_out, notBuildTest >>

NextBuildTest ==
    \/ BtParseArg
    \/ BtParsed
    \/ BtBuild
    \/ BtNoBuild
    \/ BtTest
    \/ BtNoTest
    \/ BtDone

(***************************************************************************)
(* scripts/build-and-push.py                                               *)
(***************************************************************************)
\* outcome of subprocess.run that stands for a raised exception (the
\* command could not be started)
Raised == 0 - 1
CmdOutcomes == RetCodes \cup {Raised}

\* argparse namespace; message is the required positional argument
BpArgs == [message : BOOLEAN, skip_tests : BOOLEAN, skip_javadoc : BOOLEAN,
           dry_run : BOOLEAN]

InitBuildPush ==
    /\ bp_args \in BpArgs
    /\ bp_pc = "parse"
    /\ bp_ran = << >>
    /\ bp_changed = FALSE
    /\ bp_out = {}
    /\ bp_status = 0

\* faulty variant: a failed command is reported as a success
bp_run_command_ignoring(rc) == TRUE

\* run_command 41-75: True when the command ran and returned 0
bp_run_command(rc) == rc = 0

\* faulty variant: the --dry-run flag is not looked at
is_dry_run_never(a) == FALSE

\* main 397: if args.dry_run
is_dry_run(a) == a.dry_run

\* return <code> of main, handed to sys.exit at 511-512
BpReturn(code) ==
    /\ bp_status' = code
    /\ bp_pc' = "exit"

\* main 378: parser.parse_args() exits with status 2 without a message;
\* main 380-395: the banner
BpParseArgs ==
    /\ bp_pc = "parse"
    /\ IF ~bp_args.message
       THEN bp_out' = bp_out \cup {"usage"} /\ BpReturn(2)
       ELSE /\ bp_out' = bp_out \cup {"banner"}
                   \cup (IF bp_args.dry_run THEN {"DRY RUN MODE"} ELSE {})
            /\ bp_pc' = "begin"
            /\ UNCHANGED bp_status
    /\ UNCHANGED << bp_args, bp_ran, bp_changed, notBuildPush >>

\* main 397-414
BpDryRun ==
    /\ bp_pc = "begin"
    /\ is_dry_run(bp_args)
    /\ bp_out' = bp_out \cup {"Dry run complete"}
    /\ BpReturn(0)
    /\ UNCHANGED << bp_args, bp_ran, bp_changed, notBuildPush >>

\* main 416-419 and prompt_pgp_passphrase 292-339: the dummy file may not be
\* writable, gpg may be missing, time out or return any code; main ignores
\* the result
BpPromptPgp ==
    /\ bp_pc = "begin"
    /\ ~is_dry_run(bp_args)
    /\ \/ UNCHANGED << bp_ran, bp_changed >>
       \/ \E rc \in CmdOutcomes :
             /\ bp_ran' = Append(bp_ran, << "gpg", rc >>)
             /\ bp_changed' = TRUE
    /\ bp_pc' = "tests"
    /\ UNCHANGED << bp_args, bp_out, bp_status, notBuildPush >>

\* if not run_command(...): print, play_sound(success=False), return 1
BpRun(cmd, next) ==
    \E rc \in CmdOutcomes :
        /\ bp_ran' = Append(bp_ran, << cmd, rc >>)
        /\ bp_changed' = TRUE
        /\ IF bp_run_command(rc)
           THEN /\ bp_out' = bp_out \cup {"SUCCESS"}
                /\ bp_pc' = next
                /\ UNCHANGED bp_status
           ELSE /\ bp_out' = bp_out \cup {"FAILED", "aborted", "sound failure"}
                /\ BpReturn(1)

\* main 421-434
BpTests ==
    /\ bp_pc = "tests"
    /\ IF ~bp_args.skip_tests
       THEN BpRun("mvn test", "build")
       ELSE /\ bp_out' = bp_out \cup {"Skipping tests"}
            /\ bp_pc' = "build"
            /\ UNCHANGED << bp_ran, bp_changed, bp_status >>
    /\ UNCHANGED << bp_args, notBuildPush >>

\* main 436-445
BpBuild ==
    /\ bp_pc = "build"
    /\ BpRun("mvn clean package install", "javadoc")
    /\ UNCHANGED << bp_args, notBuildPush >>

\* main 447-460
BpJavadoc ==
    /\ bp_pc = "javadoc"
    /\ IF ~bp_args.skip_javadoc
       THEN BpRun("mvn javadoc:javadoc", "status")
       ELSE /\ bp_out' = bp_out \cup {"Skipping Javadoc"}
            /\ bp_pc' = "status"
            /\ UNCHANGED << bp_ran, bp_changed, bp_status >>
    /\ UNCHANGED << bp_args, notBuildPush >>

\* check_git_status 210-223: True when git status prints something, and
\* also when it fails
check_git_status(rc, dirty) == IF rc = 0 THEN dirty ELSE TRUE

\* main 462-467
BpCheckGitStatus ==
    /\ bp_pc = "status"
    /\ \E rc \in CmdOutcomes, dirty \in BOOLEAN :
          /\ bp_ran' = Append(bp_ran, << "git status", rc >>)
          /\ IF ~check_git_status(rc, dirty)
             THEN /\ bp_out' = bp_out \cup {"nothing to commit", "sound success"}
                  /\ BpReturn(0)
             ELSE /\ bp_out' = bp_out \cup
                        (IF rc /= 0 THEN {"Could not check git status"} ELSE {})
                  /\ bp_pc' = "add"
                  /\ UNCHANGED bp_status
    /\ bp_changed' = TRUE
    /\ UNCHANGED << bp_args, notBuildPush >>

\* main 469-478
BpGitAdd ==
    /\ bp_pc = "add"
    /\ BpRun("git add", "commit")
    /\ UNCHANGED << bp_args, notBuildPush >>

\* main 480-489
BpGitCommit ==
    /\ bp_pc = "commit"
    /\ BpRun("git commit", "push")
    /\ UNCHANGED << bp_args, notBuildPush >>

\* main 491-500
BpGitPush ==
    /\ bp_pc = "push"
    /\ BpRun("git push", "done")
    /\ UNCHANGED << bp_args, notBuildPush >>

\* main 502-508
BpSuccess ==
    /\ bp_pc = "done"
    /\ bp_out' = bp_out \cup {"All operations completed", "sound success"}
    /\ BpReturn(0)
    /\ UNCHANGED << bp_args, bp_ran, bp_changed, notBuildPush >>

NextBuildPush ==
    \/ BpParseArgs
    \/ BpDryRun
    \/ BpPromptPgp
    \/ BpTests
    \/ BpBuild
    \/ BpJavadoc
    \/ BpCheckGitStatus
    \/ BpGitAdd
    \/ BpGitCommit
    \/ BpGitPush
    \/ BpSuccess

(***************************************************************************)
(* scripts/release-docs-stage.py                                           *)
(***************************************************************************)
InitDocsStage ==
    /\ ds_no_push \in BOOLEAN
    /\ ds_pc = "start"
    /\ ds_ran = << >>
    /\ ds_out = {}
    /\ ds_status = 0

\* faulty variant: a failed command is reported as a success
ds_run_command_ignoring(check, rc) == TRUE

\* run_command 42-72: True when the command ran and returned 0, with
\* check=True (CalledProcessError) and with check=False (returncode test)
ds_run_command(check, rc) == rc = 0

\* print the error, play_sound(success=False), sys.exit(1)
DsExit1(msg) ==
    /\ ds_out' = ds_out \cup {msg, "sound failure"}
    /\ ds_status' = 1
    /\ ds_pc' = "exit"

\* if not run_command(cmd, ...): print, play_sound, sys.exit(1)
DsRun(cmd, msg, next) ==
    \E rc \in CmdOutcomes :
        /\ ds_ran' = Append(ds_ran, << cmd, rc >>)
        /\ IF ds_run_command(TRUE, rc)
           THEN /\ ds_pc' = next
                /\ UNCHANGED << ds_out, ds_status >>
           ELSE DsExit1(msg)

\* main 185-191: build-docs.py must exist
DsFindBuildScript ==
    /\ ds_pc = "start"
    /\ \E exists \in BOOLEAN :
          IF ~exists
          THEN DsExit1("build-docs.py not found")
          ELSE ds_pc' = "build" /\ UNCHANGED << ds_out, ds_status >>
    /\ UNCHANGED << ds_no_push, ds_ran, notDocsStage >>

\* main 193-200
DsBuildDocs ==
    /\ ds_pc = "build"
    /\ DsRun("build-docs.py --staging", "Documentation build failed", "build_dir")
    /\ UNCHANGED << ds_no_push, notDocsStage >>

\* main 202-206
DsFindBuildDir ==
    /\ ds_pc = "build_dir"
    /\ \E exists \in BOOLEAN :
          IF ~exists
          THEN DsExit1("Build directory not found")
          ELSE ds_pc' = "remote" /\ UNCHANGED << ds_out, ds_status >>
    /\ UNCHANGED << ds_no_push, ds_ran, notDocsStage >>

\* main 211-220 and get_git_remote_url 75-86: None when git config fails,
\* and an empty answer is no URL either
DsRemoteUrl ==
    /\ ds_pc = "remote"
    /\ \E rc \in CmdOutcomes, empty \in BOOLEAN :
          /\ ds_ran' = Append(ds_ran, << "git config --get remote.origin.url", rc >>)
          /\ IF rc /= 0 \/ empty
             THEN DsExit1("Could not determine git remote URL")
             ELSE ds_pc' = "clone" /\ UNCHANGED << ds_out, ds_status >>
    /\ UNCHANGED << ds_no_push, notDocsStage >>

\* main 222-247: update the existing clone or make a new one; shutil.rmtree
\* of a directory that is no repository may raise
DsCloneOrFetch ==
    /\ ds_pc = "clone"
    /\ \/ DsRun("git fetch origin", "Failed to fetch latest changes", "fetch")
       \/ DsRun("git clone", "Failed to clone repository", "fetch")
       \/ DsExit1("ERROR") /\ UNCHANGED ds_ran
    /\ UNCHANGED << ds_no_push, notDocsStage >>

\* main 249-256: check=False; a failure is only warned about
DsFetchStaging ==
    /\ ds_pc = "fetch"
    /\ \E rc \in CmdOutcomes :
          /\ ds_ran' = Append(ds_ran, << "git fetch origin asf-staging", rc >>)
          /\ ds_out' = ds_out \cup
                (IF ds_run_command(FALSE, rc) THEN {} ELSE {"Could not fetch asf-staging"})
    /\ ds_pc' = "checkout"
    /\ UNCHANGED << ds_no_push, ds_status, notDocsStage >>

\* main 258-278: git checkout -B asf-staging origin/asf-staging; when it
\* returns non-zero, git checkout -b asf-staging; subprocess.run raising
\* ends in the except clause of 403-408
DsCheckout ==
    /\ ds_pc = "checkout"
    /\ \E rc \in CmdOutcomes :
          IF rc = Raised
          THEN /\ ds_ran' = Append(ds_ran, << "git checkout -B", rc >>)
               /\ DsExit1("ERROR")
          ELSE IF rc /= 0
          THEN \E rc2 \in CmdOutcomes :
               /\ ds_ran' = ds_ran \o << << "git checkout -B", rc >>,
                                         << "git checkout -b", rc2 >> >>
               /\ IF ds_run_command(TRUE, rc2)
                  THEN ds_pc' = "copy" /\ UNCHANGED << ds_out, ds_status >>
                  ELSE DsExit1("Failed to create asf-staging branch")
          ELSE /\ ds_ran' = Append(ds_ran, << "git checkout -B", rc >>)
               /\ ds_out' = ds_out \cup {"Checked out asf-staging branch"}
               /\ ds_pc' = "copy"
               /\ UNCHANGED ds_status
    /\ UNCHANGED << ds_no_push, notDocsStage >>

\* main 280-298: empty the staging directory and copy docs/build into it;
\* a failing file operation ends in the except clause of 403-408
DsCopyBuild ==
    /\ ds_pc = "copy"
    /\ \/ ds_pc' = "config" /\ ds_out' = ds_out \cup {"Copied"} /\ UNCHANGED ds_status
       \/ DsExit1("ERROR")
    /\ UNCHANGED << ds_no_push, ds_ran, notDocsStage >>

\* main 300-331: read user.name / user.email (defaults when not set), then
\* set them in the staging clone; the results of the two run_command calls
\* are not looked at
DsGitUser ==
    /\ ds_pc = "config"
    /\ \E name_set \in BOOLEAN, email_set \in BOOLEAN,
          rc1 \in CmdOutcomes, rc2 \in CmdOutcomes :
          ds_ran' = ds_ran \o
              << << "git config --get user.name", IF name_set THEN 0 ELSE 1 >>,
                 << "git config --get user.email", IF email_set THEN 0 ELSE 1 >>,
                 << "git config user.name", rc1 >>,
                 << "git config user.email", rc2 >> >>
    /\ ds_pc' = "add"
    /\ UNCHANGED << ds_no_push, ds_out, ds_status, notDocsStage >>

\* main 333-341
DsGitAdd ==
    /\ ds_pc = "add"
    /\ DsRun("git add -A", "Failed to add files", "diff")
    /\ UNCHANGED << ds_no_push, notDocsStage >>

\* main 343-360: git diff --staged --quiet returns non-zero when there are
\* staged changes, and then the commit is made
DsCommit ==
    /\ ds_pc = "diff"
    /\ \E rc \in CmdOutcomes :
          IF rc = Raised
          THEN /\ ds_ran' = Append(ds_ran, << "git diff --staged --quiet", rc >>)
               /\ DsExit1("ERROR")
          ELSE IF rc /= 0
          THEN \E rc2 \in CmdOutcomes :
               /\ ds_ran' = ds_ran \o << << "git diff --staged --quiet", rc >>,
                                         << "git commit", rc2 >> >>
               /\ IF ds_run_command(TRUE, rc2)
                  THEN ds_pc' = "push" /\ UNCHANGED << ds_out, ds_status >>
                  ELSE DsExit1("Failed to commit changes")
          ELSE /\ ds_ran' = Append(ds_ran, << "git diff --staged --quiet", rc >>)
               /\ ds_out' = ds_out \cup {"No changes to commit"}
               /\ ds_pc' = "push"
               /\ UNCHANGED ds_status
    /\ UNCHANGED << ds_no_push, notDocsStage >>

\* faulty variant: the push is made whatever --no-push says
ds_wants_push_always(no_push) == TRUE

\* main 363: if not args.no_push
ds_wants_push(no_push) == ~no_push

\* main 362-372
DsPush ==
    /\ ds_pc = "push"
    /\ ds_wants_push(ds_no_push)
    /\ DsRun("git push origin asf-staging --force", "Failed to push to remote", "done")
    /\ UNCHANGED << ds_no_push, notDocsStage >>

\* main 373-378
DsSkipPush ==
    /\ ds_pc = "push"
    /\ ~ds_wants_push(ds_no_push)
    /\ ds_out' = ds_out \cup {"Skipping push"}
    /\ ds_pc' = "done"
    /\ UNCHANGED << ds_no_push, ds_ran, ds_status, notDocsStage >>

\* main 380-397, then main returns and the process exits with status 0
DsComplete ==
    /\ ds_pc = "done"
    /\ ds_out' = ds_out \cup {"deployment complete", "sound success"}
                   \cup (IF ~ds_no_push THEN {"browser"} ELSE {})
    /\ ds_status' = 0
    /\ ds_pc' = "exit"
    /\ UNCHANGED << ds_no_push, ds_ran, notDocsStage >>

\* main 399-402: Ctrl-C anywhere inside the try block
DsInterrupt ==
    /\ ds_pc \in {"clone", "fetch", "checkout", "copy", "config", "add", "diff",
                  "push", "done"}
    /\ DsExit1("Process interrupted by user")
    /\ UNCHANGED << ds_no_push, ds_ran, notDocsStage >>

NextDocsStage ==
    \/ DsFindBuildScript
    \/ DsBuildDocs
    \/ DsFindBuildDir
    \/ DsRemoteUrl
    \/ DsCloneOrFetch
    \/ DsFetchStaging
    \/ DsCheckout
    \/ DsCopyBuild
    \/ DsGitUser
    \/ DsGitAdd
    \/ DsCommit
    \/ DsPush
    \/ DsSkipPush
    \/ DsComplete
    \/ DsInterrupt

(***************************************************************************)
(* scripts/release-docs.py                                                 *)
(***************************************************************************)
InitReleaseDocs ==
    /\ rd_no_push \in BOOLEAN
    /\ rd_pc = "start"
    /\ rd_ran = << >>
    /\ rd_temp_dir = "none"
    /\ rd_out = {}
    /\ rd_status = 0

\* faulty variant: a failed command is reported as a success
rd_run_command_ignoring(check, rc) == TRUE

\* run_command 43-68: with check=True a non-zero return code raises
\* CalledProcessError and gives False; without it only a command that could
\* not be started gives False
rd_run_command(check, rc) == IF check THEN rc = 0 ELSE rc /= Raised

\* main 285: if not args.no_push and temp_dir.exists()
rd_cleans_up(no_push, dir) == ~no_push /\ dir = "exists"

\* main 283-288: the finally clause, run on every way out of the try block;
\* shutil.rmtree may raise, and then the process ends with a traceback
finally(code, printed) ==
    IF rd_cleans_up(rd_no_push, rd_temp_dir)
    THEN \/ /\ rd_temp_dir' = "deleted"
            /\ rd_out' = printed \cup {"Cleanup complete"}
            /\ rd_status' = code
         \/ /\ rd_temp_dir' = "exists"
            /\ rd_out' = printed \cup {"Traceback"}
            /\ rd_status' = 1
    ELSE /\ rd_status' = code
         /\ rd_out' = printed
         /\ UNCHANGED rd_temp_dir

\* print the error and sys.exit(1) inside the try block
RdExit1(msg) ==
    /\ rd_pc' = "exit"
    /\ finally(1, rd_out \cup {msg})

\* if not run_command(cmd, ...): print, sys.exit(1)
RdRun(cmd, next) ==
    \E rc \in CmdOutcomes :
        /\ rd_ran' = Append(rd_ran, << cmd, rc >>)
        /\ IF rd_run_command(TRUE, rc)
           THEN /\ rd_pc' = next
                /\ UNCHANGED << rd_temp_dir, rd_out, rd_status >>
           ELSE RdExit1("FAILED")

\* main 181-185 and get_git_remote_url 71-82, before the try block
RdRemoteUrl ==
    /\ rd_pc = "start"
    /\ \E rc \in CmdOutcomes, empty \in BOOLEAN :
          /\ rd_ran' = Append(rd_ran, << "git config --get remote.origin.url", rc >>)
          /\ IF rc /= 0 \/ empty
             THEN /\ rd_out' = rd_out \cup {"Could not determine git remote URL"}
                  /\ rd_status' = 1
                  /\ rd_pc' = "exit"
             ELSE /\ rd_pc' = "mkdtemp"
                  /\ UNCHANGED << rd_out, rd_status >>
    /\ UNCHANGED << rd_no_push, rd_temp_dir, notReleaseDocs >>

\* main 187-189: tempfile.mkdtemp, which raises when no directory can be made
RdMkdtemp ==
    /\ rd_pc = "mkdtemp"
    /\ \/ /\ rd_temp_dir' = "exists"
          /\ rd_pc' = "clone"
          /\ UNCHANGED << rd_out, rd_status >>
       \/ /\ rd_out' = rd_out \cup {"Traceback"}
          /\ rd_status' = 1
          /\ rd_pc' = "exit"
          /\ UNCHANGED rd_temp_dir
    /\ UNCHANGED << rd_no_push, rd_ran, notReleaseDocs >>

\* main 192-198
RdClone ==
    /\ rd_pc = "clone"
    /\ RdRun("git clone", "fetch")
    /\ UNCHANGED << rd_no_push, notReleaseDocs >>

\* main 200-207
RdFetchStaging ==
    /\ rd_pc = "fetch"
    /\ RdRun("git fetch origin asf-staging", "switch")
    /\ UNCHANGED << rd_no_push, notReleaseDocs >>

\* main 209-216
RdSwitchDetach ==
    /\ rd_pc = "switch"
    /\ RdRun("git switch --detach origin/asf-staging", "config")
    /\ UNCHANGED << rd_no_push, notReleaseDocs >>

\* main 218-246: read user.name / user.email (defaults when not set), then
\* set them in the clone; the results of the two run_command calls are not
\* looked at
RdGitUser ==
    /\ rd_pc = "config"
    /\ \E name_set \in BOOLEAN, email_set \in BOOLEAN,
          rc1 \in CmdOutcomes, rc2 \in CmdOutcomes :
          rd_ran' = rd_ran \o
              << << "git config --get user.name", IF name_set THEN 0 ELSE 1 >>,
                 << "git config --get user.email", IF email_set THEN 0 ELSE 1 >>,
                 << "git config user.name", rc1 >>,
                 << "git config user.email", rc2 >> >>
    /\ rd_pc' = "push"
    /\ UNCHANGED << rd_no_push, rd_temp_dir, rd_out, rd_status, notReleaseDocs >>

\* faulty variant: the push is made whatever --no-push says
rd_wants_push_always(no_push) == TRUE

\* main 249: if not args.no_push
rd_wants_push(no_push) == ~no_push

\* main 248-257
RdPush ==
    /\ rd_pc = "push"
    /\ rd_wants_push(rd_no_push)
    /\ RdRun("git push origin HEAD:asf-site --force", "done")
    /\ UNCHANGED << rd_no_push, notReleaseDocs >>

\* main 258-263
RdSkipPush ==
    /\ rd_pc = "push"
    /\ ~rd_wants_push(rd_no_push)
    /\ rd_out' = rd_out \cup {"Skipping push"}
    /\ rd_pc' = "done"
    /\ UNCHANGED << rd_no_push, rd_ran, rd_temp_dir, rd_status, notReleaseDocs >>

\* main 265-273: the closing messages and the sound, 283-288: the finally
\* clause; then main returns and the process exits with status 0
RdComplete ==
    /\ rd_pc = "done"
    /\ rd_pc' = "exit"
    /\ finally(0, rd_out \cup {"promotion complete", "sound success"})
    /\ UNCHANGED << rd_no_push, rd_ran, notReleaseDocs >>

\* main 275-277: Ctrl-C anywhere inside the try block, then the finally clause
RdInterrupt ==
    /\ rd_pc \in {"clone", "fetch", "switch", "config", "push", "done"}
    /\ RdExit1("Process interrupted by user")
    /\ UNCHANGED << rd_no_push, rd_ran, notReleaseDocs >>

NextReleaseDocs ==
    \/ RdRemoteUrl
    \/ RdMkdtemp
    \/ RdClone
    \/ RdFetchStaging
    \/ RdSwitchDetach
    \/ RdGitUser
    \/ RdPush
    \/ RdSkipPush
    \/ RdComplete
    \/ RdInterrupt

(***************************************************************************)
(* scripts/cleanup-whitespace.py: clean_java_file.  A text is a sequence   *)
(* of characters; "x" stands for any character that is neither white space *)
(* nor a closing brace, " " for a blank or a tab, and "\r" for the line    *)
(* boundaries other than "\n" (all of them white space for str.rstrip).    *)
(***************************************************************************)
Chars == {"x", "}", " ", "\n", "\r"}
Texts == UNION {[1..n -> Chars] : n \in 0..MaxLen}

InitCleanup ==
    /\ cw_file \in Texts
    /\ cw_pc = "read"
    /\ content = << >>
    /\ lines = << >>
    /\ new_content = << >>
    /\ cw_ret = FALSE

\* str.isspace for the characters of the model
isspace(c) == c \in {" ", "\n", "\r"}

endswith(s, c) == s /= << >> /\ s[Len(s)] = c

\* faulty variant: trailing white space is kept
rstrip_nothing(s) == s

\* str.rstrip()
RECURSIVE rstrip(_)
rstrip(s) ==
    IF s /= << >> /\ isspace(s[Len(s)]) THEN rstrip(SubSeq(s, 1, Len(s) - 1)) ELSE s

\* str.lstrip()
RECURSIVE lstrip(_)
lstrip(s) == IF s /= << >> /\ isspace(Head(s)) THEN lstrip(Tail(s)) ELSE s

\* str.strip()
strip(s) == lstrip(rstrip(s))

\* faulty variant: the newlines at the end are kept
rstrip_newline_kept(s) == s

\* str.rstrip('\n')
RECURSIVE rstrip_newline(_)
rstrip_newline(s) ==
    IF endswith(s, "\n") THEN rstrip_newline(SubSeq(s, 1, Len(s) - 1)) ELSE s

\* length of the first line of a non-empty text, its line boundary
\* ("\n", "\r" or "\r\n") included
first_line(s) ==
    LET ends == {i \in 1..Len(s) : s[i] \in {"\n", "\r"}} IN
    IF ends = {} THEN Len(s)
    ELSE LET i == CHOOSE e \in ends : \A f \in ends : e <= f IN
         IF s[i] = "\r" /\ i < Len(s) /\ s[i + 1] = "\n" THEN i + 1 ELSE i

\* str.splitlines(keepends=True)
RECURSIVE splitlines(_)
splitlines(s) ==
    IF s = << >> THEN << >>
    ELSE << SubSeq(s, 1, first_line(s)) >>
             \o splitlines(SubSeq(s, first_line(s) + 1, Len(s)))

\* ''.join(...)
RECURSIVE join(_)
join(ls) == IF ls = << >> THEN << >> ELSE Head(ls) \o join(Tail(ls))

\* clean_java_file 44-45, step 1
remove_trailing_whitespace(ls) ==
    [i \in 1..Len(ls) |->
        rstrip(ls[i]) \o (IF endswith(ls[i], "\n") THEN << "\n" >> ELSE << >>)]

\* faulty variant: every blank line is kept
keep_consecutive_blank(ls, prev_blank) == ls

\* clean_java_file 47-56, step 2: the loop with prev_blank
RECURSIVE remove_consecutive_blank(_, _)
remove_consecutive_blank(ls, prev_blank) ==
    IF ls = << >> THEN << >>
    ELSE LET is_blank == strip(Head(ls)) = << >> IN
         IF is_blank /\ prev_blank
         THEN remove_consecutive_blank(Tail(ls), prev_blank)
         ELSE << Head(ls) >> \o remove_consecutive_blank(Tail(ls), is_blank)

\* clean_java_file 60-61 and 71-73: pop the blank lines at the end of a list
RECURSIVE pop_blank(_)
pop_blank(ls) ==
    IF ls /= << >> /\ strip(ls[Len(ls)]) = << >>
    THEN pop_blank(SubSeq(ls, 1, Len(ls) - 1))
    ELSE ls

\* clean_java_file 58-73, step 3
remove_blank_before_brace(ls) ==
    LET cleaned == pop_blank(ls) IN
    IF cleaned /= << >> /\ strip(cleaned[Len(cleaned)]) = << "}" >>
    THEN pop_blank(SubSeq(cleaned, 1, Len(cleaned) - 1)) \o << cleaned[Len(cleaned)] >>
    ELSE cleaned

\* clean_java_file 75-82, step 4
final_newline(ls) ==
    LET joined == rstrip_newline(join(ls)) IN
    IF joined /= << >> /\ ~endswith(joined, "}") THEN joined \o << "\n" >> ELSE joined

\* clean_java_file 37-42: read the file and split it; a file that cannot be
\* read ends in the except clause of 92-94
CwRead ==
    /\ cw_pc = "read"
    /\ \/ /\ content' = cw_file
          /\ lines' = splitlines(cw_file)
          /\ cw_pc' = "step1"
       \/ /\ cw_pc' = "error"
          /\ UNCHANGED << content, lines >>
    /\ UNCHANGED << cw_file, new_content, cw_ret, notCleanup >>

CwStep1 ==
    /\ cw_pc = "step1"
    /\ lines' = remove_trailing_whitespace(lines)
    /\ cw_pc' = "step2"
    /\ UNCHANGED << cw_file, content, new_content, cw_ret, notCleanup >>

CwStep2 ==
    /\ cw_pc = "step2"
    /\ lines' = remove_consecutive_blank(lines, FALSE)
    /\ cw_pc' = "step3"
    /\ UNCHANGED << cw_file, content, new_content, cw_ret, notCleanup >>

CwStep3 ==
    /\ cw_pc = "step3"
    /\ lines' = remove_blank_before_brace(lines)
    /\ cw_pc' = "step4"
    /\ UNCHANGED << cw_file, content, new_content, cw_ret, notCleanup >>

CwStep4 ==
    /\ cw_pc = "step4"
    /\ new_content' = final_newline(lines)
    /\ cw_pc' = "write"
    /\ UNCHANGED << cw_file, content, lines, cw_ret, notCleanup >>

\* clean_java_file 84-90: write the file when the content changed; a write
\* that fails ends in the except clause and may leave the file truncated
CwWrite ==
    /\ cw_pc = "write"
    /\ IF new_content /= content
       THEN \/ cw_file' = new_content /\ cw_ret' = TRUE /\ cw_pc' = "done"
            \/ cw_file' \in {cw_file, << >>} /\ cw_ret' = FALSE /\ cw_pc' = "error"
       ELSE cw_pc' = "done" /\ UNCHANGED << cw_file, cw_ret >>
    /\ UNCHANGED << content, lines, new_content, notCleanup >>

\* clean_java_file 92-94: print the error, return False
CwError ==
    /\ cw_pc = "error"
    /\ cw_ret' = FALSE
    /\ cw_pc' = "done"
    /\ UNCHANGED << cw_file, content, lines, new_content, notCleanup >>

NextCleanup ==
    \/ CwRead
    \/ CwStep1
    \/ CwStep2
    \/ CwStep3
    \/ CwStep4
    \/ CwWrite
    \/ CwError

\* the state of a script that is not the one being run
IdleRelease ==
    /\ arg_start_step = None /\ start_step = None /\ skip_steps = {} /\ resume = FALSE
    /\ data = EmptyMap /\ file = NoFile /\ save_ok = TRUE /\ save_fails = 0
    /\ disk_faults = 0
    /\ env_repo = FALSE /\ pc = "exit" /\ step_idx = 1 /\ op_idx = 1
    /\ executed = << >> /\ completed = << >> /\ loaded_last = None
    /\ ckpt_at_start = None /\ cmd_failed = None /\ procs = {} /\ out = {}
    /\ logged_last = None /\ status = 0
IdleState ==
    /\ pdata = [p \in Procs |-> EmptyMap] /\ pfile = NoFile /\ plast = NoCall
    /\ pfails = 0 /\ pcalls = MaxStateOps
IdleBuildTest ==
    /\ bt_args = << >> /\ bt_cwd_ok = TRUE /\ bt_pc = "exit" /\ bt_i = 1
    /\ build_only = FALSE /\ test_only = FALSE /\ full = TRUE /\ verbose = FALSE
    /\ exit_code = 0 /\ bt_ran = << >> /\ bt_out = {} /\ bt_status = 0
IdleBuildPush ==
    /\ bp_args = [message |-> FALSE, skip_tests |-> FALSE, skip_javadoc |-> FALSE,
                  dry_run |-> FALSE]
    /\ bp_pc = "exit" /\ bp_ran = << >> /\ bp_changed = FALSE
    /\ bp_out = {} /\ bp_status = 0
IdleDocsStage ==
    /\ ds_no_push = FALSE /\ ds_pc = "exit" /\ ds_ran = << >>
    /\ ds_out = {} /\ ds_status = 0
IdleReleaseDocs ==
    /\ rd_no_push = FALSE /\ rd_pc = "exit" /\ rd_ran = << >>
    /\ rd_temp_dir = "none" /\ rd_out = {} /\ rd_status = 0
IdleCleanup ==
    /\ cw_file = << >> /\ cw_pc = "done" /\ content = << >> /\ lines = << >>
    /\ new_content = << >> /\ cw_ret = FALSE

(***************************************************************************)
(* The claims.                                                             *)
(***************************************************************************)
IsPrefix(s, t) == Len(s) <= Len(t) /\ SubSeq(t, 1, Len(s)) = s
Last(s) == s[Len(s)]
Increasing(seq) ==
    \A i, j \in 1..Len(seq) : i < j => index(steps, seq[i]) < index(steps, seq[j])
\* the steps after position k that --skip-step does not name, in list order
StepsAfter(k) == SelectSeq(steps, LAMBDA s : index(steps, s) > k /\ s \notin skip_steps)

\* C1: run() calls the steps in the order of the step list, each at most
\* once, and calls a step only when every step called before it has returned
\* normally.
C1_StepsInListOrder ==
    /\ \A i \in 1..Len(executed) : executed[i] \in StepSet
    /\ Increasing(executed)
    /\ IsPrefix(completed, executed)
    /\ Len(completed) >= Len(executed) - 1
    /\ pc = "loop" => completed = executed
    /\ pc \in {"step", "ret"} =>
          /\ executed /= << >> /\ Last(executed) = cur_step
          /\ completed = SubSeq(executed, 1, Len(executed) - 1)
C1_Witness ==
    /\ pc = "step" /\ Len(executed) >= 3
    /\ completed = SubSeq(executed, 1, Len(executed) - 1)

C3_ResumeAfterCheckpoint ==
    (resume /\ loaded_last \in StepSet) =>
        /\ IsPrefix(executed, StepsAfter(index(steps, loaded_last)))
        /\ "SUCCESS" \in out => executed = StepsAfter(index(steps, loaded_last))
C3_Witness ==
    /\ resume /\ loaded_last = "run_clean_verify" /\ "SUCCESS" \in out
    /\ skip_steps = {"run_release_prepare"}
    /\ Len(executed) = 4

\* C4 as stated: with --start-step S and no --resume, for S in the step list
\* the steps called are those from S on that --skip-step does not name; for
\* any other S no step is called and the exit status is 1.
C4_StartStep ==
    (~resume /\ arg_start_step /= None) =>
        IF arg_start_step \in StepSet
        THEN /\ IsPrefix(executed, StepsAfter(index(steps, arg_start_step) - 1))
             /\ "SUCCESS" \in out =>
                    executed = StepsAfter(index(steps, arg_start_step) - 1)
        ELSE /\ executed = << >>
             /\ pc = "exit" => status = 1

\* C5: a step named by --skip-step is never called, and skipping a step
\* changes neither the in-memory state nor the state file.
C5_SkippedNeverRun ==
    [][ /\ \A i \in 1..Len(executed') : executed'[i] \notin skip_steps'
        /\ (pc = "loop" /\ pc' = "loop" /\ step_idx' /= step_idx) =>
              (data' = data /\ file' = file)
      ]_vars
C5_Witness ==
    /\ ~resume /\ arg_start_step = None
    /\ skip_steps = {"clean_maven_repo"}
    /\ executed = << "check_prerequisites", "check_java_version",
                     "check_maven_version", "make_git_folder" >>
    /\ FileLast(file) = "check_maven_version"

C7_InterruptLogsLastCompleted ==
    "Interrupted" \in out =>
        logged_last = get_last_step(data) /\ logged_last = FileLast(file)

BtFailed == \E i \in 1..Len(bt_ran) : bt_ran[i][2] /= 0

\* C9 as stated: the exit status is 0 or 1: 1 after a failed build or test
\* or an unknown option, 0 when every command succeeded.
C9_ExitZeroOrOne ==
    bt_pc = "exit" =>
        /\ bt_status \in {0, 1}
        /\ (BtFailed \/ "Unknown option" \in bt_out) => bt_status = 1
        /\ (~BtFailed /\ bt_out \cap {"Unknown option", "Traceback"} = {}) => bt_status = 0
\* C9, amended: the exit status is 1 for an unknown option (and when the
\* command could not be started), the failing command's own return code when
\* the build or the tests failed, and 0 otherwise.
C9_ExitStatus ==
    bt_pc = "exit" =>
        CASE "Unknown option" \in bt_out -> bt_status = 1
          [] "Traceback" \in bt_out -> bt_status = 1
          [] BtFailed -> bt_status = Last(bt_ran)[2] /\ bt_status /= 0
          [] OTHER -> bt_status = 0
C9_Witness ==
    /\ bt_pc = "exit" /\ BtFailed /\ bt_status > 1
    /\ "Tests failed" \in bt_out

BtHas(opts) == \E i \in 1..Len(bt_args) : bt_args[i] \in opts
BtRan(cmd) == \E i \in 1..Len(bt_ran) : bt_ran[i][1] = cmd
BtBuildOpts == {"--build-only", "-b"}
BtTestOpts == {"--test-only", "-t"}
BtFullOpts == {"--full", "-f"}
\* the arguments were all accepted by the loop of main
BtAccepted == \A i \in 1..Len(bt_args) : bt_args[i] \notin {"--help", "-h", "--no-such-option"}
\* no mode option is given, or a --full comes after the last -b / -t
BtFullAtEnd ==
    \/ ~BtHas(BtBuildOpts \cup BtTestOpts)
    \/ \E i \in 1..Len(bt_args) :
          /\ bt_args[i] \in BtFullOpts
          /\ \A j \in (i + 1)..Len(bt_args) : bt_args[j] \notin BtBuildOpts \cup BtTestOpts

BpStepCmds == {"mvn test", "mvn clean package install", "mvn javadoc:javadoc",
               "git add", "git commit", "git push"}
BpSteps == SelectSeq(bp_ran, LAMBDA r : r[1] \in BpStepCmds)
BpPlan ==
    (IF bp_args.skip_tests THEN << >> ELSE << "mvn test" >>)
    \o << "mvn clean package install" >>
    \o (IF bp_args.skip_javadoc THEN << >> ELSE << "mvn javadoc:javadoc" >>)
    \o << "git add", "git commit", "git push" >>

\* C11: the step commands run are, in order, the first ones of: mvn test
\* (unless --skip-tests), mvn clean package install, mvn javadoc:javadoc
\* (unless --skip-javadoc), git add, git commit, git push; every one before
\* the last succeeded, so git push runs only after all the others succeeded;
\* after a failing step the script has returned 1 and no later step was run.
C11_PushAfterAllSucceeded ==
    /\ Len(BpSteps) <= Len(BpPlan)
    /\ \A i \in 1..Len(BpSteps) : BpSteps[i][1] = BpPlan[i]
    /\ \A i \in 1..(Len(BpSteps) - 1) : BpSteps[i][2] = 0
    /\ (\E i \in 1..Len(BpSteps) : BpSteps[i][2] /= 0) =>
          (bp_pc = "exit" /\ bp_status = 1)
C11_Witness ==
    /\ bp_pc = "exit" /\ bp_status = 0
    /\ ~bp_args.skip_tests /\ ~bp_args.skip_javadoc
    /\ Len(BpSteps) = 6 /\ BpSteps[6] = << "git push", 0 >>

\* C12: with --dry-run no external command is run, nothing is written and
\* no sound is played, whatever --skip-tests and --skip-javadoc are, and
\* main (reached when the commit message is given) returns 0.
C12_DryRunDoesNothing ==
    bp_args.dry_run =>
        /\ bp_ran = << >>
        /\ ~bp_changed
        /\ bp_out \cap {"sound success", "sound failure"} = {}
        /\ (bp_pc = "exit" /\ bp_args.message) =>
              (bp_status = 0 /\ "Dry run complete" \in bp_out)
C12_Witness ==
    /\ bp_args.dry_run /\ bp_args.skip_tests /\ ~bp_args.skip_javadoc
    /\ bp_pc = "exit" /\ bp_status = 0 /\ "Dry run complete" \in bp_out
DsAt(cmd, rc) == {i \in 1..Len(ds_ran) : ds_ran[i] = << cmd, rc >>}
DsRanCmd(cmd) == \E i \in 1..Len(ds_ran) : ds_ran[i][1] = cmd
DsPushCmd == "git push origin asf-staging --force"
DsChanges == {i \in 1..Len(ds_ran) :
                 ds_ran[i][1] = "git diff --staged --quiet" /\ ds_ran[i][2] /= 0}

\* C14: with --no-push, git push is never run; otherwise, when the force
\* push to asf-staging is run, the documentation build succeeded, then the
\* asf-staging branch was checked out (-B) or created (-b), then git add
\* succeeded, and when git diff --staged --quiet reported staged changes
\* git commit succeeded, all before the push.
C14_PushOnlyAfterStaging ==
    /\ ds_no_push => ~DsRanCmd(DsPushCmd)
    /\ \A p \in 1..Len(ds_ran) : ds_ran[p][1] = DsPushCmd =>
          \E b, c, a \in 1..(p - 1) :
             /\ b < c /\ c < a
             /\ b \in DsAt("build-docs.py --staging", 0)
             /\ c \in DsAt("git checkout -B", 0) \cup DsAt("git checkout -b", 0)
             /\ a \in DsAt("git add -A", 0)
             /\ \A d \in DsChanges :
                   \E m \in DsAt("git commit", 0) : a < d /\ d < m /\ m < p
C14_Witness ==
    /\ ~ds_no_push /\ ds_pc = "exit" /\ ds_status = 0
    /\ DsAt(DsPushCmd, 0) /= {}
    /\ DsAt("git commit", 0) /= {}
    /\ DsAt("git checkout -b", 0) /= {}

RdAt(cmd, rc) == {i \in 1..Len(rd_ran) : rd_ran[i] = << cmd, rc >>}
RdPushCmd == "git push origin HEAD:asf-site --force"
RdPushed == \E i \in 1..Len(rd_ran) : rd_ran[i][1] = RdPushCmd
RdSteps == {"git clone", "git fetch origin asf-staging",
            "git switch --detach origin/asf-staging"}

\* C15: with --no-push the push to asf-site is never run; when it is run,
\* git clone, git fetch origin asf-staging and git switch --detach
\* origin/asf-staging have succeeded before it, in this order; once one of
\* the three has failed the process has exited with status 1 and no push
\* was run.
C15_PushOnlyAfterSwitch ==
    /\ rd_no_push => ~RdPushed
    /\ \A p \in 1..Len(rd_ran) : rd_ran[p][1] = RdPushCmd =>
          \E c, f, w \in 1..(p - 1) :
             /\ c < f /\ f < w
             /\ c \in RdAt("git clone", 0)
             /\ f \in RdAt("git fetch origin asf-staging", 0)
             /\ w \in RdAt("git switch --detach origin/asf-staging", 0)
    /\ (\E i \in 1..Len(rd_ran) : rd_ran[i][1] \in RdSteps /\ rd_ran[i][2] /= 0) =>
          (rd_pc = "exit" /\ rd_status = 1 /\ ~RdPushed)
C15_Witness ==
    /\ ~rd_no_push /\ rd_pc = "exit" /\ rd_status = 0
    /\ RdAt(RdPushCmd, 0) /= {}

\* C16 as stated: at exit the temporary clone directory has been deleted
\* exactly when the push to asf-site was run and succeeded; with --no-push
\* and after a failed step it is still there.
C16_TempDirDeletedIffPushed ==
    (rd_pc = "exit" /\ rd_temp_dir /= "none") =>
        (rd_temp_dir = "deleted" <=> RdAt(RdPushCmd, 0) /= {})

\* a line without its line boundary
chomp(l) ==
    LET cut(t) == SubSeq(t, 1, Len(t) - 1)
        m == IF endswith(l, "\n") THEN cut(l) ELSE l
    IN IF endswith(m, "\r") THEN cut(m) ELSE m
\* the lines of the content produced
OutLines == LET ls == splitlines(new_content) IN [i \in 1..Len(ls) |-> chomp(ls[i])]
\* the characters of a text that are not white space
Ink(t) == SelectSeq(t, LAMBDA c : ~isspace(c))

\* C17: in the content produced by clean_java_file no line ends with white
\* space, no two consecutive lines are blank, and when the last line is a
\* closing brace the line before it is not blank.
C17_CleanLines ==
    LET n == Len(OutLines) IN
    /\ \A i \in 1..n : rstrip(OutLines[i]) = OutLines[i]
    /\ \A i \in 1..(n - 1) :
          ~(strip(OutLines[i]) = << >> /\ strip(OutLines[i + 1]) = << >>)
    /\ (n >= 2 /\ strip(OutLines[n]) = << "}" >>) => strip(OutLines[n - 1]) /= << >>
C17_Witness ==
    /\ cw_pc = "done" /\ cw_ret
    /\ content = << "x", " ", "\n", "\n", "}" >>
    /\ new_content = << "x", "\n", "}" >>
    /\ cw_file = new_content

StartRelease ==
    /\ InitRelease
    /\ IdleState
    /\ IdleBuildTest
    /\ IdleBuildPush
    /\ IdleDocsStage
    /\ IdleReleaseDocs
    /\ IdleCleanup
StartState ==
    /\ InitState
    /\ IdleRelease
    /\ IdleBuildTest
    /\ IdleBuildPush
    /\ IdleDocsStage
    /\ IdleReleaseDocs
    /\ IdleCleanup
StartBuildTest ==
    /\ InitBuildTest
    /\ IdleRelease
    /\ IdleState
    /\ IdleBuildPush
    /\ IdleDocsStage
    /\ IdleReleaseDocs
    /\ IdleCleanup
StartBuildPush ==
    /\ InitBuildPush
    /\ IdleRelease
    /\ IdleState
    /\ IdleBuildTest
    /\ IdleDocsStage
    /\ IdleReleaseDocs
    /\ IdleCleanup
StartDocsStage ==
    /\ InitDocsStage
    /\ IdleRelease
    /\ IdleState
    /\ IdleBuildTest
    /\ IdleBuildPush
    /\ IdleReleaseDocs
    /\ IdleCleanup
StartReleaseDocs ==
    /\ InitReleaseDocs
    /\ IdleRelease
    /\ IdleState
    /\ IdleBuildTest
    /\ IdleBuildPush
    /\ IdleDocsStage
    /\ IdleCleanup
StartCleanup ==
    /\ InitCleanup
    /\ IdleRelease
    /\ IdleState
    /\ IdleBuildTest
    /\ IdleBuildPush
    /\ IdleDocsStage
    /\ IdleReleaseDocs

SpecRelease == StartRelease /\ [][NextRelease]_vars
SpecState == StartState /\ [][NextState]_vars
SpecBuildTest == StartBuildTest /\ [][NextBuildTest]_vars
SpecBuildPush == StartBuildPush /\ [][NextBuildPush]_vars
SpecDocsStage == StartDocsStage /\ [][NextDocsStage]_vars
SpecReleaseDocs == StartReleaseDocs /\ [][NextReleaseDocs]_vars
SpecCleanup == StartCleanup /\ [][NextCleanup]_vars
Spec == SpecRelease
====
